---- MODULE Spec2Model ----
(***************************************************************************)
(* CrabShell / HermitShell: the trigger claimer of the workspace calendar  *)
(* (shell/src/history.ts), the Telegram orchestrator                       *)
(* (shell/src/telegram.ts) and the sandbox adapter (shell/src/docker.ts).  *)
(*                                                                         *)
(* Every async function is cut at its awaits: one action per stretch of    *)
(* code that runs without yielding to the event loop.                      *)
(***************************************************************************)
EXTENDS Integers, Sequences, FiniteSets, TLC

\* ------------------------------------------------------------------------
\* Bounds of the model
\* ------------------------------------------------------------------------
MaxTime == 1
MaxEvents == 2
NumClaimers == 2
MaxDay == 1
NumChatRuns == 2
NumCallbacks == 2
MaxOut == 2

\* SQL NULL / JavaScript null
NULL == 0 - 1

Times == 0..MaxTime
Claimers == 1..NumClaimers
Prompts == {"p1"}
\* end_time of a created event: absent, or the first instant as toISOString
\* spells it
EndTimes == {NULL, 1}
Days == 0..MaxDay
ChatRuns == 1..NumChatRuns
Callbacks == 1..NumCallbacks

VARIABLES
    now,              \* the process clock (new Date() / Date.now() / CURRENT_TIMESTAMP)
    calendar_events,  \* table calendar_events: id -> row
    lastInsertRowid,  \* AUTOINCREMENT counter of calendar_events
    claimer,          \* one claimDueCalendarEvents call per element of Claimers
    today,            \* the calendar day of the process-local date
    budget,           \* the agent's row of table budgets
    run,              \* one inbound chat message per element of ChatRuns
    cb,               \* one inbound callback_query per element of Callbacks
    pendingDelegations, \* the Map pendingDelegations: delegationId -> entry
    notified,         \* delegation ids for which the operator was sent the buttons
    containers,       \* the environments created so far (docker.createContainer)
    store,            \* whether the backing store answers: "up" or "down"
    audit_logs,       \* the audit_logs row of the one approval request
    sentinels,        \* the sentinel files written into sandboxes, in order
    ap,               \* one inbound approve/deny callback_query per element of Callbacks
    spawn             \* one spawnAgent call, from createContainer to its settled promise

calVars == <<calendar_events, lastInsertRowid, claimer>>
apVars == <<audit_logs, sentinels, ap>>
tgVars == <<today, budget, run, cb, pendingDelegations, notified, containers, store, apVars>>

vars == <<now, calendar_events, lastInsertRowid, claimer,
          today, budget, run, cb, pendingDelegations, notified, containers, spawn,
          store, audit_logs, sentinels, ap>>

\* ------------------------------------------------------------------------
\* Calendar store (history.ts)
\* ------------------------------------------------------------------------

\* interface CalendarEvent, the fields the claimer reads or writes
Statuses == {"scheduled", "running", "completed", "failed", "cancelled"}

\* a row of the table with its id: what SELECT * returns
EventOf(id) ==
    [id |-> id,
     status |-> calendar_events[id].status,
     prompt |-> calendar_events[id].prompt,
     start_time |-> calendar_events[id].start_time,
     end_time |-> calendar_events[id].end_time,
     started_at |-> calendar_events[id].started_at]

\* Timestamps are TEXT. A text is numbered by its place in the byte order
\* the store compares texts in: the texts of an earlier clock reading come
\* before those of a later one, and for one clock reading `...:SS-01:00`
\* comes before `...:SS.mmmZ`, which comes before `...:SSZ`, because
\* '-' < '.' < 'Z'.

\* new Date().toISOString(): `YYYY-MM-DDTHH:MM:SS.mmmZ`
toISOString(t) == 3 * t + 1

\* the same instant written without milliseconds: `YYYY-MM-DDTHH:MM:SSZ`
ISOSeconds(t) == 3 * t + 2

\* the same instant written as local time one unit behind UTC:
\* `YYYY-MM-DDTHH:MM:SS-01:00`, whose clock reading is t - 1
ISOOffset(t) == 3 * (t - 1)

\* the instant a timestamp text denotes
InstantOf(text) == IF text % 3 = 0 THEN (text \div 3) + 1 ELSE text \div 3

\* the start_time texts a caller of createCalendarEvent may pass
StartTexts ==
    {toISOString(t) : t \in Times} \cup {ISOSeconds(t) : t \in Times}
        \cup {ISOOffset(t) : t \in Times \ {0}}

\* comparison of two TEXT values (start_time <= ?)
TimeLE(a, b) == a <= b

\* WHERE status = 'scheduled' AND start_time <= ? AND (end_time IS NULL OR end_time >= ?)
IsDue(id, t) ==
    /\ calendar_events[id].status = "scheduled"
    /\ TimeLE(calendar_events[id].start_time, t)
    /\ (calendar_events[id].end_time = NULL \/ TimeLE(t, calendar_events[id].end_time))

DueIds(t) == {id \in DOMAIN calendar_events : IsDue(id, t)}

\* ORDER BY start_time ASC: every order of the result that is ascending in
\* start_time (the order of rows with equal start_time is the store's choice)
OrderedByStartTime(ids) ==
    {s \in [1..Cardinality(ids) -> ids] :
        /\ \A i, j \in 1..Cardinality(ids) : i # j => s[i] # s[j]
        /\ \A i, j \in 1..Cardinality(ids) :
              i < j => TimeLE(calendar_events[s[i]].start_time,
                              calendar_events[s[j]].start_time)}

\* UPDATE ... WHERE id = ? (no status guard): rowsAffected
RowsAffectedUnguarded(id) ==
    IF id \in DOMAIN calendar_events THEN 1 ELSE 0

\* UPDATE ... WHERE id = ? AND status = 'scheduled': rowsAffected
RowsAffected(id) ==
    IF id \in DOMAIN calendar_events /\ calendar_events[id].status = "scheduled"
    THEN 1 ELSE 0

\* if (Number(update.rowsAffected || 0) > 1): a claim test that never passes
IsClaimedStrict(rowsAffected) == rowsAffected > 1

\* if (Number(update.rowsAffected || 0) > 0)
IsClaimed(rowsAffected) == rowsAffected > 0

\* one claimDueCalendarEvents call and its caller: the call's locals, and
\* how many of the returned events the caller has run
ClaimerInit ==
    [pc |-> "idle", due |-> <<>>, claimed |-> <<>>, rowsAffected |-> <<>>, ran |-> 0]

\* createCalendarEvent: INSERT ... VALUES (..., 'scheduled')
createCalendarEvent(prompt, start_time, end_time) ==
    /\ lastInsertRowid < MaxEvents
    /\ lastInsertRowid' = lastInsertRowid + 1
    /\ calendar_events' =
          [id \in DOMAIN calendar_events \cup {lastInsertRowid + 1} |->
              IF id = lastInsertRowid + 1
              THEN [status |-> "scheduled", prompt |-> prompt,
                    start_time |-> start_time, end_time |-> end_time,
                    started_at |-> NULL, completed_at |-> NULL, last_error |-> "none"]
              ELSE calendar_events[id]]
    /\ UNCHANGED <<now, claimer, tgVars, spawn>>

\* claimDueCalendarEvents, up to the await of the SELECT: now is read, the
\* SELECT runs; with nothing due the loop is skipped and the call returns
ClaimSelect(c) ==
    /\ claimer[c].pc = "idle"
    /\ \E due \in OrderedByStartTime(DueIds(toISOString(now))) :
          claimer' = [claimer EXCEPT ![c] =
              [pc |-> IF Len(due) = 0 THEN "returned" ELSE "loop",
               due |-> [i \in 1..Len(due) |-> EventOf(due[i])],
               claimed |-> <<>>,
               rowsAffected |-> <<>>,
               ran |-> 0]]
    /\ UNCHANGED <<now, calendar_events, lastInsertRowid, tgVars, spawn>>

\* one iteration of the for loop: the conditional UPDATE of the next due
\* event, the push on rowsAffected > 0; after the last event the call returns
ClaimUpdate(c) ==
    /\ claimer[c].pc = "loop"
    /\ LET i == Len(claimer[c].rowsAffected) + 1
           event == claimer[c].due[i]
           ra == RowsAffected(event.id)
       IN /\ calendar_events' =
                IF ra > 0
                THEN [calendar_events EXCEPT ![event.id].status = "running",
                                             ![event.id].started_at = now]
                ELSE calendar_events
          /\ claimer' = [claimer EXCEPT ![c] =
                [@ EXCEPT !.rowsAffected = Append(@, ra),
                          !.claimed = IF IsClaimed(ra)
                                      THEN Append(@, [event EXCEPT !.status = "running"])
                                      ELSE @,
                          !.pc = IF i = Len(claimer[c].due) THEN "returned" ELSE "loop"]]
    /\ UNCHANGED <<now, lastInsertRowid, tgVars, spawn>>

\* a store call of claimDueCalendarEvents rejects (client.execute throws):
\* the exception leaves the function, its claimed array is never returned
ClaimStoreFails(c) ==
    /\ claimer[c].pc \in {"idle", "loop"}
    /\ claimer' = [claimer EXCEPT ![c] = [ClaimerInit EXCEPT !.pc = "threw"]]
    /\ UNCHANGED <<now, calendar_events, lastInsertRowid, tgVars, spawn>>

\* the columns updateCalendarEvent copies from `updates` when present
UpdatableFields ==
    {"prompt", "start_time", "end_time", "status", "last_error", "started_at", "completed_at"}

\* UPDATE calendar_events SET <the fields present> WHERE id = ?
Patch(row, updates) ==
    [f \in DOMAIN row |-> IF f \in DOMAIN updates THEN updates[f] ELSE row[f]]

\* the table after updateCalendarEvent(id, agentId, updates): nothing is
\* written for empty updates or a missing row
Updated(events, id, updates) ==
    IF DOMAIN updates \cap UpdatableFields = {} \/ id \notin DOMAIN events
    THEN events
    ELSE [events EXCEPT ![id] = Patch(@, updates)]

\* updateCalendarEvent, called from the dashboard
updateCalendarEvent(id, updates) ==
    /\ calendar_events' = Updated(calendar_events, id, updates)
    /\ UNCHANGED <<now, lastInsertRowid, claimer, tgVars, spawn>>

\* deleteCalendarEvent: DELETE FROM calendar_events WHERE id = ?
deleteCalendarEvent(id) ==
    /\ calendar_events' = [i \in DOMAIN calendar_events \ {id} |-> calendar_events[i]]
    /\ UNCHANGED <<now, lastInsertRowid, claimer, tgVars, spawn>>

\* the caller of claimDueCalendarEvents runs the next event the call
\* returned, with the stored prompt, and marks the row completed, or failed
\* with the error text, setting completed_at either way
CalendarRun(c, ok) ==
    /\ claimer[c].pc = "returned"
    /\ claimer[c].ran < Len(claimer[c].claimed)
    /\ LET event == claimer[c].claimed[claimer[c].ran + 1]
       IN calendar_events' =
             Updated(calendar_events, event.id,
                     IF ok THEN [status |-> "completed", completed_at |-> now]
                     ELSE [status |-> "failed", completed_at |-> now,
                           last_error |-> "error"])
    /\ claimer' = [claimer EXCEPT ![c].ran = @ + 1]
    /\ UNCHANGED <<now, lastInsertRowid, tgVars, spawn>>

\* the wall clock advances
Tick ==
    /\ now < MaxTime
    /\ now' = now + 1
    /\ UNCHANGED <<calVars, tgVars, spawn>>

\* ------------------------------------------------------------------------
\* Resource ledger (db.ts: canSpend, updateSpend)
\* ------------------------------------------------------------------------

\* money in units of 10^-7 USD, so that 0.9999999 USD is a whole number
USD(dollars) == dollars * 10000000

\* result.output.length * 0.0001: a cost estimate ten times too high
EstimatedCostTenfold(output) == output.len * 1000

\* const estimatedCost = result.output.length * 0.00001
EstimatedCost(output) == output.len * 100

\* canSpend(agentId): lazy reset when last_reset_date is not today, then
\* current_spend < daily_limit; the row after the call and the answer
canSpend(b, day) ==
    LET reset == IF b.last_reset_date # day
                 THEN [b EXCEPT !.current_spend = 0, !.last_reset_date = day]
                 ELSE b
    IN [budget |-> reset, ok |-> reset.current_spend < reset.daily_limit]

\* canSpend against a backing store that may not answer: it fails closed,
\* denying without touching the row
canSpendOrDeny(st, b, day) ==
    IF st = "down" THEN [budget |-> b, ok |-> FALSE] ELSE canSpend(b, day)

\* updateSpend(agentId, amount): current_spend incremented by amount
updateSpend(b, amount) == [b EXCEPT !.current_spend = @ + amount]

\* the backing store becomes unreachable, or reachable again
StoreFlips ==
    /\ store' = IF store = "up" THEN "down" ELSE "up"
    /\ UNCHANGED <<now, calVars, spawn, apVars, today, budget, run, cb,
                   pendingDelegations, notified, containers>>

\* midnight passes
NewDay ==
    /\ today < MaxDay
    /\ today' = today + 1
    /\ UNCHANGED <<now, calVars, spawn, apVars, store, budget, run, cb, pendingDelegations, notified, containers>>

\* ------------------------------------------------------------------------
\* Orchestrator (telegram.ts)
\* ------------------------------------------------------------------------

Users == {"operator", "alice", "mallory"}
\* table allowlist (isAllowed), and its operator row (getOperator)
Allowlist == {"operator", "alice"}

Commands == {"/status", "/reset", "/budget"}
Texts == Commands \cup {"hello"}

\* what a sandbox run prints, as far as the orchestrator reads it: its length
\* and whether it holds [MEETING] with a TARGET_ROLE: and a TASK: line
Outputs == {[len |-> 1, meeting |-> FALSE],
            [len |-> 2, meeting |-> FALSE],
            [len |-> 2, meeting |-> TRUE]}

NoOutput == [len |-> 0, meeting |-> FALSE]
NoDelegation == [id |-> NULL, src |-> NULL, timestamp |-> NULL]

\* a chat message: where its handling stands, the reply it got, the output of
\* its sandbox run, and the runs that were in flight when it passed canSpend
RunInit == [pc |-> "new", reply |-> <<"none">>, output |-> NoOutput, overlap |-> {}]

\* a callback_query: where its handling stands, the entry it read, and what
\* it last told the operator (editMessageText / sendTelegramMessage)
CbInit == [pc |-> "new", delegation |-> NoDelegation, told |-> "none"]

\* the caller of the two handlers: a message for which handleTelegramUpdate
\* returned null (allow-listed, within budget, no command) is handed to
\* processAgentMessage
Dispatched(r) == run[r].pc = "accepted"

\* the chat runs that passed the budget check and have not yet recorded spend
InFlight == {q \in ChatRuns : run[q].pc \in {"accepted", "spawning", "recording"}}

\* if (await canSpend(agent.id)): the denial with its negation dropped
BudgetDeniedInverted(ok) == ok

\* if (!await canSpend(agent.id))
BudgetDenied(ok) == ~ok

\* handleTelegramUpdate with the budget consulted before the allow-list
handleTelegramUpdateBudgetFirst(r, sender, text) ==
    /\ run[r].pc = "new"
    /\ LET cs == canSpendOrDeny(store, budget, today)
       IN /\ budget' = cs.budget
          /\ run' = [run EXCEPT ![r] =
                IF BudgetDenied(cs.ok)
                THEN [@ EXCEPT !.pc = "replied", !.reply = <<"budget_exceeded">>]
                ELSE IF sender \notin Allowlist
                THEN [@ EXCEPT !.pc = "replied", !.reply = <<"unauthorized", sender>>]
                ELSE IF text \in Commands
                THEN [@ EXCEPT !.pc = "replied", !.reply = <<text>>]
                ELSE [@ EXCEPT !.pc = "accepted", !.overlap = InFlight]]
    /\ UNCHANGED <<now, calVars, spawn, apVars, store, today, cb, pendingDelegations, notified, containers>>

\* handleTelegramUpdate for an update with a message: allow-list, budget,
\* commands; a null return hands the text to processAgentMessage
handleTelegramUpdate(r, sender, text) ==
    /\ run[r].pc = "new"
    /\ IF sender \notin Allowlist
       THEN /\ run' = [run EXCEPT ![r] = [@ EXCEPT !.pc = "replied",
                                                   !.reply = <<"unauthorized", sender>>]]
            /\ UNCHANGED budget
       ELSE LET cs == canSpendOrDeny(store, budget, today)
            IN /\ budget' = cs.budget
               /\ run' = [run EXCEPT ![r] =
                     IF BudgetDenied(cs.ok)
                     THEN [@ EXCEPT !.pc = "replied", !.reply = <<"budget_exceeded">>]
                     ELSE IF text \in Commands
                     THEN [@ EXCEPT !.pc = "replied", !.reply = <<text>>]
                     ELSE [@ EXCEPT !.pc = "accepted", !.overlap = InFlight]]
    /\ UNCHANGED <<now, calVars, spawn, apVars, store, today, cb, pendingDelegations, notified, containers>>

\* processAgentMessage up to spawnAgent's docker.createContainer: the
\* environment is created, or the create throws and the catch returns an error
processAgentMessage(r, created) ==
    /\ Dispatched(r)
    /\ IF created
       THEN /\ containers' = containers \cup {[by |-> <<"chat", r>>, delegation |-> NoDelegation]}
            /\ run' = [run EXCEPT ![r].pc = "spawning"]
       ELSE /\ run' = [run EXCEPT ![r] = [@ EXCEPT !.pc = "done", !.reply = <<"error">>]]
            /\ UNCHANGED containers
    /\ UNCHANGED <<now, calVars, spawn, apVars, store, today, budget, cb, pendingDelegations, notified>>

\* spawnAgent rejects and no catch stands between it and the caller
PamSpawnPropagates(r) ==
    /\ run[r].pc = "spawning"
    /\ run' = [run EXCEPT ![r].pc = "threw"]
    /\ UNCHANGED <<now, calVars, spawn, apVars, store, today, budget, cb, pendingDelegations, notified, containers>>

\* spawnAgent rejects: catch (error) returns `Error: ...`
PamSpawnRejects(r) ==
    /\ run[r].pc = "spawning"
    /\ run' = [run EXCEPT ![r] = [@ EXCEPT !.pc = "done", !.reply = <<"error">>]]
    /\ UNCHANGED <<now, calVars, spawn, apVars, store, today, budget, cb, pendingDelegations, notified, containers>>

\* spawnAgent resolves: a delegation intent is stored under
\* `${agent.id}_${Date.now()}` and sendDelegationRequest awaited; any other
\* output has its cost estimated and updateSpend awaited
PamSpawnResolves(r, output) ==
    /\ run[r].pc = "spawning"
    /\ IF output.meeting
       THEN /\ pendingDelegations' =
                  [id \in DOMAIN pendingDelegations \cup {now} |->
                      IF id = now THEN [id |-> now, src |-> r, timestamp |-> now]
                      ELSE pendingDelegations[id]]
            /\ run' = [run EXCEPT ![r] = [@ EXCEPT !.pc = "notifying", !.output = output]]
       ELSE /\ run' = [run EXCEPT ![r] = [@ EXCEPT !.pc = "recording", !.output = output]]
            /\ UNCHANGED pendingDelegations
    /\ UNCHANGED <<now, calVars, spawn, apVars, store, today, budget, cb, notified, containers>>

\* await updateSpend(agent.id, estimatedCost); return { output }; a throwing
\* updateSpend lands in the catch
PamUpdateSpend(r, stored) ==
    /\ run[r].pc = "recording"
    /\ IF stored
       THEN /\ budget' = updateSpend(budget, EstimatedCost(run[r].output))
            /\ run' = [run EXCEPT ![r] = [@ EXCEPT !.pc = "done", !.reply = <<"output">>]]
       ELSE /\ run' = [run EXCEPT ![r] = [@ EXCEPT !.pc = "done", !.reply = <<"error">>]]
            /\ UNCHANGED budget
    /\ UNCHANGED <<now, calVars, spawn, apVars, store, today, cb, pendingDelegations, notified, containers>>

\* sendDelegationRequest: no operator row returns silently; the fetch sends
\* the buttons or throws into processAgentMessage's catch
sendDelegationRequest(r, outcome) ==
    /\ run[r].pc = "notifying"
    /\ outcome \in {"sent", "no_operator", "fetch_failed"}
    /\ LET ids == {id \in DOMAIN pendingDelegations : pendingDelegations[id].src = r}
       IN notified' = IF outcome = "sent" THEN notified \cup ids ELSE notified
    /\ run' = [run EXCEPT ![r] =
          [@ EXCEPT !.pc = "done",
                    !.reply = IF outcome = "fetch_failed" THEN <<"error">>
                              ELSE <<"delegation_sent">>]]
    /\ UNCHANGED <<now, calVars, spawn, apVars, store, today, budget, cb, pendingDelegations, containers>>

\* the delegate branch without its `if (!delegation)` return: a missing entry
\* is resolved like a present one
handleCallbackQueryUnchecked(k, sender, action, delegationId) ==
    /\ cb[k].pc = "new"
    /\ action \in {"delegate_approve", "delegate_deny"}
    /\ cb' = [cb EXCEPT ![k] =
          [pc |-> IF action = "delegate_approve" THEN "approved" ELSE "denied",
           delegation |-> IF delegationId \in DOMAIN pendingDelegations
                          THEN pendingDelegations[delegationId] ELSE NoDelegation,
           told |-> IF action = "delegate_approve" THEN "approved" ELSE "denied"]]
    /\ UNCHANGED <<now, calVars, spawn, apVars, store, today, budget, run, pendingDelegations, notified, containers>>

\* handleCallbackQuery, delegate_approve / delegate_deny, up to its first
\* await: pendingDelegations.get, then editMessageText
handleCallbackQuery(k, sender, action, delegationId) ==
    /\ cb[k].pc = "new"
    /\ action \in {"delegate_approve", "delegate_deny"}
    /\ cb' = [cb EXCEPT ![k] =
          IF delegationId \notin DOMAIN pendingDelegations
          THEN [@ EXCEPT !.pc = "done", !.told = "not_found"]
          ELSE [pc |-> IF action = "delegate_approve" THEN "approved" ELSE "denied",
                delegation |-> pendingDelegations[delegationId],
                told |-> IF action = "delegate_approve" THEN "approved" ELSE "denied"]]
    /\ UNCHANGED <<now, calVars, spawn, apVars, store, today, budget, run, pendingDelegations, notified, containers>>

\* after editMessageText and getAgentById: a rejected getAgentById throws
\* out of the handler; with no such agent the entry is deleted at once; else
\* spawnAgent's createContainer creates the sub-agent's environment, or throws
\* into the catch, which sends `Delegation failed`
CbSpawn(k, outcome) ==
    /\ cb[k].pc = "approved"
    /\ outcome \in {"created", "create_failed", "no_agent", "lookup_failed"}
    /\ containers' =
          IF outcome = "created"
          THEN containers \cup {[by |-> <<"callback", k>>, delegation |-> cb[k].delegation]}
          ELSE containers
    /\ cb' = [cb EXCEPT ![k] =
          CASE outcome = "created" -> [@ EXCEPT !.pc = "spawning"]
            [] outcome = "create_failed" -> [@ EXCEPT !.pc = "relaying", !.told = "failed"]
            [] outcome = "no_agent" -> [@ EXCEPT !.pc = "done"]
            [] outcome = "lookup_failed" -> [@ EXCEPT !.pc = "threw"]]
    /\ pendingDelegations' =
          IF outcome = "no_agent"
          THEN [id \in DOMAIN pendingDelegations \ {cb[k].delegation.id} |->
                   pendingDelegations[id]]
          ELSE pendingDelegations
    /\ UNCHANGED <<now, calVars, spawn, apVars, store, today, budget, run, notified>>

\* spawnAgent settles; its output or `Delegation failed` goes to
\* sendTelegramMessage
CbSpawnSettles(k, resolved) ==
    /\ cb[k].pc = "spawning"
    /\ cb' = [cb EXCEPT ![k] = [@ EXCEPT !.pc = "relaying",
                                         !.told = IF resolved THEN "output" ELSE "failed"]]
    /\ UNCHANGED <<now, calVars, spawn, apVars, store, today, budget, run, pendingDelegations, notified, containers>>

\* pendingDelegations.delete(delegationId); return null
CbDelete(k) ==
    /\ cb[k].pc \in {"relaying", "denied"}
    /\ pendingDelegations' =
          [id \in DOMAIN pendingDelegations \ {cb[k].delegation.id} |-> pendingDelegations[id]]
    /\ cb' = [cb EXCEPT ![k].pc = "done"]
    /\ UNCHANGED <<now, calVars, spawn, apVars, store, today, budget, run, notified, containers>>

\* ------------------------------------------------------------------------
\* Approval gate (telegram.ts: handleCallbackQuery, approve / deny)
\* ------------------------------------------------------------------------

\* the approval request the operator was sent: sendApprovalRequest put its
\* audit log id and this container id into both buttons' callback_data
RequestContainer == "c1"

\* parts[2] of callback_data: the request's container id, or nothing
ContainerIds == {"", RequestContainer}

\* the audit_logs row written with status pending; updates counts the
\* resolutions that changed it, resolver is the callback whose update did
AuditInit == [status |-> "pending", approved_by |-> "none", updates |-> 0, resolver |-> 0]

ApInit == [pc |-> "new", action |-> "none", containerId |-> ""]

\* updateAuditLog(logId, status, approvedBy): the entry's single transition
\* out of pending; for an entry already resolved it changes nothing
updateAuditLog(entry, status, approvedBy, k) ==
    IF entry.status = "pending"
    THEN [status |-> status, approved_by |-> approvedBy,
          updates |-> entry.updates + 1, resolver |-> k]
    ELSE entry

\* the file each branch touches, with the two paths swapped
SentinelSwapped(action) == IF action = "approve" THEN "deny" ELSE "approve"

\* Cmd: ['touch', '/tmp/hermit_approval.lock'] / ['touch', '/tmp/hermit_deny.lock']
Sentinel(action) == IF action = "approve" THEN "approve" ELSE "deny"

\* handleCallbackQuery, approve / deny, up to the awaited updateAuditLog; a
\* rejected updateAuditLog throws out of the handler
ApResolve(k, sender, action, containerId, ok) ==
    /\ ap[k].pc = "new"
    /\ action \in {"approve", "deny"}
    /\ IF ok
       THEN /\ audit_logs' = updateAuditLog(audit_logs,
                                 IF action = "approve" THEN "approved" ELSE "denied",
                                 sender, k)
            /\ ap' = [ap EXCEPT ![k] =
                  [pc |-> IF action = "approve" /\ containerId # "" THEN "approving"
                          ELSE "denying",
                   action |-> action, containerId |-> containerId]]
       ELSE /\ ap' = [ap EXCEPT ![k] =
                  [pc |-> "threw", action |-> action, containerId |-> containerId]]
            /\ UNCHANGED audit_logs
    /\ UNCHANGED <<now, calVars, spawn, store, today, budget, run, cb,
                   pendingDelegations, notified, containers, sentinels>>

\* the approve branch without its try/catch: a failed exec throws out of the
\* handler
ApApproveUncaught(k, ok) ==
    /\ ap[k].pc = "approving"
    /\ sentinels' = IF ok
                    THEN Append(sentinels, [container |-> ap[k].containerId,
                                            file |-> Sentinel("approve"), by |-> k])
                    ELSE sentinels
    /\ ap' = [ap EXCEPT ![k].pc = IF ok THEN "done" ELSE "threw"]
    /\ UNCHANGED <<now, calVars, spawn, store, today, budget, run, cb,
                   pendingDelegations, notified, containers, audit_logs>>

\* action === 'approve' && containerId: container.exec + exec.start touch the
\* approve lock, or throw into the catch; editMessageText either way
ApApprove(k, ok) ==
    /\ ap[k].pc = "approving"
    /\ sentinels' = IF ok
                    THEN Append(sentinels, [container |-> ap[k].containerId,
                                            file |-> Sentinel("approve"), by |-> k])
                    ELSE sentinels
    /\ ap' = [ap EXCEPT ![k].pc = "done"]
    /\ UNCHANGED <<now, calVars, spawn, store, today, budget, run, cb,
                   pendingDelegations, notified, containers, audit_logs>>

\* the else branch: editMessageText `Denied`, then with a containerId
\* container.exec + exec.start touch the deny lock, errors swallowed
ApDeny(k, ok) ==
    /\ ap[k].pc = "denying"
    /\ sentinels' = IF ok /\ ap[k].containerId # ""
                    THEN Append(sentinels, [container |-> ap[k].containerId,
                                            file |-> Sentinel("deny"), by |-> k])
                    ELSE sentinels
    /\ ap' = [ap EXCEPT ![k].pc = "done"]
    /\ UNCHANGED <<now, calVars, spawn, store, today, budget, run, cb,
                   pendingDelegations, notified, containers, audit_logs>>

\* ------------------------------------------------------------------------
\* Webhook (server.ts: POST /webhook/:token)
\* ------------------------------------------------------------------------

\* the request handler for an update that carries an approve / deny
\* callback_query: without a top-level message it answers { ok: true } at
\* once; with one it calls handleTelegramUpdate, whose first test hands the
\* callback_query to handleCallbackQuery
postWebhook(k, hasMessage, sender, action, containerId, ok) ==
    IF hasMessage
    THEN ApResolve(k, sender, action, containerId, ok)
    ELSE /\ ap[k].pc = "new"
         /\ action \in {"approve", "deny"}
         /\ ap' = [ap EXCEPT ![k] =
               [pc |-> "ignored", action |-> action, containerId |-> containerId]]
         /\ UNCHANGED <<now, calVars, spawn, store, today, budget, run, cb,
                        pendingDelegations, notified, containers, audit_logs, sentinels>>

\* the process restarts: the Map is empty again, and the handlers that were
\* under way are gone
Restart ==
    /\ pendingDelegations' = <<>>
    /\ run' = [r \in ChatRuns |->
                  IF run[r].pc \in {"new", "replied", "done"} THEN run[r]
                  ELSE [run[r] EXCEPT !.pc = "killed"]]
    /\ cb' = [k \in Callbacks |->
                 IF cb[k].pc \in {"new", "done", "threw"} THEN cb[k]
                 ELSE [cb[k] EXCEPT !.pc = "killed"]]
    /\ UNCHANGED <<now, calVars, spawn, apVars, store, today, budget, notified, containers>>

\* ------------------------------------------------------------------------
\* Sandbox adapter (docker.ts: spawnAgent)
\* ------------------------------------------------------------------------

\* the characters of the combined output that the line filter tells apart
Chars == {"a", "{", " ", "\n"}
Whitespace == {" ", "\n"}

\* 'No response from agent'
Placeholder == <<"No response from agent">>
NoResult == <<"none">>

\* String.prototype.trim
RECURSIVE TrimStart(_)
TrimStart(s) ==
    IF s # <<>> /\ Head(s) \in Whitespace THEN TrimStart(Tail(s)) ELSE s

RECURSIVE TrimEnd(_)
TrimEnd(s) ==
    IF s # <<>> /\ s[Len(s)] \in Whitespace THEN TrimEnd(SubSeq(s, 1, Len(s) - 1)) ELSE s

Trim(s) == TrimEnd(TrimStart(s))

\* output.split('\n')
RECURSIVE SplitLines(_)
SplitLines(s) ==
    IF \A i \in 1..Len(s) : s[i] # "\n"
    THEN <<s>>
    ELSE LET i == CHOOSE i \in 1..Len(s) :
                      s[i] = "\n" /\ \A j \in 1..(i - 1) : s[j] # "\n"
         IN <<SubSeq(s, 1, i - 1)>> \o SplitLines(SubSeq(s, i + 1, Len(s)))

\* the filter without its startsWith test: only blank lines are dropped
KeepLineNonBlank(l) == Trim(l) # <<>>

\* (l) => l.trim() && !l.startsWith('{')
KeepLine(l) == Trim(l) # <<>> /\ Head(l) # "{"

\* lines.join('\n')
RECURSIVE JoinLines(_)
JoinLines(lines) ==
    IF lines = <<>> THEN <<>>
    ELSE IF Len(lines) = 1 THEN lines[1]
    ELSE lines[1] \o <<"\n">> \o JoinLines(Tail(lines))

\* output.split('\n').filter(...).join('\n').trim()
FilteredText(out) == Trim(JoinLines(SelectSeq(SplitLines(out), KeepLine)))

\* a result that drops what was captured
ResultOutputDiscarded(text) == Placeholder

\* the filtered text as it is, without the placeholder
ResultOutputRaw(text) == text

\* result || 'No response from agent'
ResultOutput(text) == IF text = <<>> THEN Placeholder ELSE text

\* one spawnAgent call: pc is the await it stands at, promise the promise it
\* returned, timeout the setTimeout handle and its handler, stoppedAt the
\* length of output when the timeout's container.stop() took effect, created
\* the number of environments made, id the created container's id, result and
\* resultId the output and containerId of the value the promise resolved with
SpawnInit ==
    [pc |-> "create", container |-> "none", stream |-> "none", timeout |-> "unset",
     output |-> <<>>, promise |-> "pending", result |-> NoResult, stoppedAt |-> NULL,
     created |-> 0, id |-> "none", resultId |-> "none"]

\* await docker.createContainer(...)
createContainer(ok) ==
    /\ spawn.pc = "create"
    /\ spawn' = IF ok THEN [spawn EXCEPT !.pc = "start", !.container = "created",
                                         !.created = @ + 1, !.id = RequestContainer]
                ELSE [spawn EXCEPT !.pc = "threw", !.promise = "rejected"]
    /\ UNCHANGED <<now, calVars, tgVars>>

\* await container.start()
containerStart(ok) ==
    /\ spawn.pc = "start"
    /\ spawn' = IF ok THEN [spawn EXCEPT !.pc = "logs", !.container = "running"]
                ELSE [spawn EXCEPT !.pc = "threw", !.promise = "rejected"]
    /\ UNCHANGED <<now, calVars, tgVars>>

\* the started container ends by itself (AutoRemove removes it)
ContainerExits ==
    /\ spawn.container = "running"
    /\ spawn' = [spawn EXCEPT !.container = "exited"]
    /\ UNCHANGED <<now, calVars, tgVars>>

\* await container.logs({follow: true, ...}), then the Promise executor:
\* output = '', the 60 s timeout is armed, the listeners are attached
\* (follow: true always yields a stream, so stream is never null)
containerLogs(ok) ==
    /\ spawn.pc = "logs"
    /\ spawn' = IF ok
                THEN [spawn EXCEPT !.pc = "attached", !.stream = "open", !.timeout = "armed"]
                ELSE [spawn EXCEPT !.pc = "threw", !.promise = "rejected"]
    /\ UNCHANGED <<now, calVars, tgVars>>

\* stream.on('data'): output += chunk.toString()
StreamData(chunk) ==
    /\ spawn.stream = "open"
    /\ Len(spawn.output) < MaxOut
    /\ spawn' = [spawn EXCEPT !.output = Append(@, chunk)]
    /\ UNCHANGED <<now, calVars, tgVars>>

\* clearTimeout(timeout): cancels a timer that has not fired
clearTimeout(t) == IF t = "armed" THEN "cleared" ELSE t

\* stream.on('end'), once the container is gone: clearTimeout, filter, resolve
StreamEnd ==
    /\ spawn.stream = "open"
    /\ spawn.container = "exited"
    /\ spawn' = [spawn EXCEPT !.stream = "ended",
                              !.timeout = clearTimeout(@),
                              !.promise = "resolved",
                              !.result = ResultOutput(FilteredText(spawn.output)),
                              !.resultId = spawn.id]
    /\ UNCHANGED <<now, calVars, tgVars>>

\* stream.on('error'): clearTimeout, reject(err)
StreamError ==
    /\ spawn.stream = "open"
    /\ spawn' = [spawn EXCEPT !.stream = "errored",
                              !.timeout = clearTimeout(@),
                              !.promise = "rejected"]
    /\ UNCHANGED <<now, calVars, tgVars>>

\* 60000 ms after the executor ran the timer fires: the handler calls
\* container.stop() and awaits it
TimeoutFires ==
    /\ spawn.timeout = "armed"
    /\ spawn' = [spawn EXCEPT !.timeout = "stopping"]
    /\ UNCHANGED <<now, calVars, tgVars>>

\* try { await container.stop() } catch {}: the stop takes effect, or the
\* daemon rejects it and the catch swallows the error
StopReturns(ok) ==
    /\ spawn.timeout = "stopping"
    /\ spawn' = IF ok /\ spawn.container = "running"
                THEN [spawn EXCEPT !.timeout = "done", !.container = "exited",
                                   !.stoppedAt = Len(spawn.output)]
                ELSE [spawn EXCEPT !.timeout = "done"]
    /\ UNCHANGED <<now, calVars, tgVars>>

CalInit ==
    /\ now = 0
    /\ calendar_events = <<>>
    /\ lastInsertRowid = 0
    /\ claimer = [c \in Claimers |-> ClaimerInit]

\* the budgets row of a fresh agent
DefaultBudget == [daily_limit |-> USD(1), current_spend |-> 0, last_reset_date |-> 0]

\* rows of table budgets the store may hold when the process starts
BudgetInputs ==
    [daily_limit : {0, USD(1)},
     current_spend : {0, 9999999, USD(1)},
     last_reset_date : {-1, 0}]

TgInit ==
    /\ today = 0
    /\ run = [r \in ChatRuns |-> RunInit]
    /\ cb = [k \in Callbacks |-> CbInit]
    /\ pendingDelegations = <<>>
    /\ notified = {}
    /\ containers = {}
    /\ spawn = SpawnInit
    /\ store = "up"
    /\ audit_logs = AuditInit
    /\ sentinels = <<>>
    /\ ap = [k \in Callbacks |-> ApInit]

Init == CalInit /\ TgInit /\ budget = DefaultBudget

\* the calendar with concurrent claimers only (no operator edits)
ClaimNext ==
    \/ \E p \in Prompts, s \in {toISOString(t) : t \in Times}, e \in EndTimes :
          createCalendarEvent(p, s, e)
    \/ \E c \in Claimers : ClaimSelect(c)
    \/ \E c \in Claimers : ClaimUpdate(c)
    \/ \E c \in Claimers : ClaimStoreFails(c)

ClaimSpec == Init /\ [][ClaimNext]_vars

\* pollers that claim due events and run what they claimed
CalendarRunNext ==
    \/ \E p \in Prompts, s \in {toISOString(t) : t \in Times}, e \in EndTimes :
          createCalendarEvent(p, s, e)
    \/ \E c \in Claimers : ClaimSelect(c)
    \/ \E c \in Claimers : ClaimUpdate(c)
    \/ \E c \in Claimers : ClaimStoreFails(c)
    \/ \E c \in Claimers, ok \in BOOLEAN : CalendarRun(c, ok)

\* the same, where a call that can go on does go on, and a poller runs every
\* event its call returned
CalendarRunFairSpec ==
    /\ Init
    /\ [][CalendarRunNext]_vars
    /\ \A c \in Claimers : WF_vars(ClaimUpdate(c))
    /\ \A c \in Claimers : WF_vars(\E ok \in BOOLEAN : CalendarRun(c, ok))

\* what the dashboard passes as `updates`: nothing, or a status
UpdateInputs == {<<>>} \cup {[status |-> st] : st \in Statuses}

\* one poller and the operator's edits of the calendar
OperatorNext ==
    \/ \E p \in Prompts, s \in {toISOString(t) : t \in Times} :
          createCalendarEvent(p, s, NULL)
    \/ \E id \in 1..MaxEvents, u \in UpdateInputs : updateCalendarEvent(id, u)
    \/ \E id \in 1..MaxEvents : deleteCalendarEvent(id)
    \/ ClaimSelect(1)
    \/ ClaimUpdate(1)

OperatorSpec == Init /\ [][OperatorNext]_vars

\* what the dashboard passes as `updates` when an event is edited: another
\* prompt, or a start time that has not come yet
EditInputs == {[prompt |-> "p2"], [start_time |-> toISOString(MaxTime)]}

\* one poller and the operator's edits of prompt and start time
EditNext ==
    \/ \E p \in Prompts, s \in {toISOString(t) : t \in Times} :
          createCalendarEvent(p, s, NULL)
    \/ \E id \in 1..MaxEvents, u \in EditInputs : updateCalendarEvent(id, u)
    \/ ClaimSelect(1)
    \/ ClaimUpdate(1)

EditSpec == Init /\ [][EditNext]_vars

\* one poller, the clock, and events whose start_time comes in any spelling
RoundTripNext ==
    \/ \E p \in Prompts, s \in StartTexts, e \in EndTimes : createCalendarEvent(p, s, e)
    \/ ClaimSelect(1)
    \/ ClaimUpdate(1)
    \/ Tick

RoundTripSpec == Init /\ [][RoundTripNext]_vars

\* chat messages of one agent against its budget
ChatNext ==
    \/ \E r \in ChatRuns, u \in Users, t \in Texts : handleTelegramUpdate(r, u, t)
    \/ \E r \in ChatRuns, created \in BOOLEAN : processAgentMessage(r, created)
    \/ \E r \in ChatRuns : PamSpawnRejects(r)
    \/ \E r \in ChatRuns, o \in Outputs : PamSpawnResolves(r, o)
    \/ \E r \in ChatRuns, stored \in BOOLEAN : PamUpdateSpend(r, stored)
    \/ \E r \in ChatRuns, oc \in {"sent", "no_operator", "fetch_failed"} :
          sendDelegationRequest(r, oc)

BudgetInit == CalInit /\ TgInit /\ budget \in BudgetInputs

BudgetNext ==
    \/ ChatNext
    \/ NewDay
    \/ StoreFlips

BudgetSpec == BudgetInit /\ [][BudgetNext]_vars

\* chat messages that ask for delegations, and the operator's callbacks
DelegationInit ==
    CalInit /\ TgInit /\ budget = [DefaultBudget EXCEPT !.current_spend = 9999999]

DelegationNext ==
    \/ ChatNext
    \/ \E k \in Callbacks, u \in Users, a \in {"delegate_approve", "delegate_deny"},
          id \in Times : handleCallbackQuery(k, u, a, id)
    \/ \E k \in Callbacks, oc \in {"created", "create_failed", "no_agent", "lookup_failed"} :
          CbSpawn(k, oc)
    \/ \E k \in Callbacks, resolved \in BOOLEAN : CbSpawnSettles(k, resolved)
    \/ \E k \in Callbacks : CbDelete(k)
    \/ Tick

DelegationSpec == DelegationInit /\ [][DelegationNext]_vars

\* delegation requests and their resolutions, with every sandbox run free to
\* fail: two messages of an allow-listed sender, whose outputs ask for a
\* delegation, and the operator's callbacks
FailureNext ==
    \/ \E r \in {1, 2} : handleTelegramUpdate(r, "alice", "hello")
    \/ \E r \in {1, 2}, created \in BOOLEAN : processAgentMessage(r, created)
    \/ \E r \in {1, 2} : PamSpawnRejects(r)
    \/ \E r \in {1, 2} : PamSpawnResolves(r, [len |-> 2, meeting |-> TRUE])
    \/ \E r \in {1, 2} : sendDelegationRequest(r, "sent")
    \/ \E k \in Callbacks, a \in {"delegate_approve", "delegate_deny"}, id \in Times :
          handleCallbackQuery(k, "operator", a, id)
    \/ \E k \in Callbacks, oc \in {"created", "create_failed", "no_agent", "lookup_failed"} :
          CbSpawn(k, oc)
    \/ \E k \in Callbacks, resolved \in BOOLEAN : CbSpawnSettles(k, resolved)
    \/ \E k \in Callbacks : CbDelete(k)

FailureSpec == Init /\ [][FailureNext]_vars

\* one delegation request, the operator's callbacks, and restarts of the
\* process
RestartNext ==
    \/ handleTelegramUpdate(1, "alice", "hello")
    \/ \E created \in BOOLEAN : processAgentMessage(1, created)
    \/ PamSpawnResolves(1, [len |-> 2, meeting |-> TRUE])
    \/ sendDelegationRequest(1, "sent")
    \/ \E k \in Callbacks, a \in {"delegate_approve", "delegate_deny"}, id \in Times :
          handleCallbackQuery(k, "operator", a, id)
    \/ \E k \in Callbacks, oc \in {"created", "create_failed", "no_agent", "lookup_failed"} :
          CbSpawn(k, oc)
    \/ \E k \in Callbacks, resolved \in BOOLEAN : CbSpawnSettles(k, resolved)
    \/ \E k \in Callbacks : CbDelete(k)
    \/ Restart

RestartSpec == Init /\ [][RestartNext]_vars

\* approve / deny clicks as the webhook receives them
WebhookNext ==
    \/ \E k \in Callbacks, m \in BOOLEAN, u \in Users, a \in {"approve", "deny"},
          c \in ContainerIds, ok \in BOOLEAN : postWebhook(k, m, u, a, c, ok)
    \/ \E k \in Callbacks, ok \in BOOLEAN : ApApprove(k, ok)
    \/ \E k \in Callbacks, ok \in BOOLEAN : ApDeny(k, ok)

\* the same, where a handler that was entered runs to its end
WebhookFairSpec ==
    /\ Init
    /\ [][WebhookNext]_vars
    /\ \A k \in Callbacks : WF_vars(\E ok \in BOOLEAN : ApApprove(k, ok))
    /\ \A k \in Callbacks : WF_vars(\E ok \in BOOLEAN : ApDeny(k, ok))

\* the operator's approve / deny callbacks for one approval request
ApprovalNext ==
    \/ \E k \in Callbacks, u \in Users, a \in {"approve", "deny"}, c \in ContainerIds,
          ok \in BOOLEAN : ApResolve(k, u, a, c, ok)
    \/ \E k \in Callbacks, ok \in BOOLEAN : ApApprove(k, ok)
    \/ \E k \in Callbacks, ok \in BOOLEAN : ApDeny(k, ok)

ApprovalSpec == Init /\ [][ApprovalNext]_vars

\* one sandbox run, from spawnAgent's call to its settled promise
SpawnNext ==
    \/ \E ok \in BOOLEAN : createContainer(ok)
    \/ \E ok \in BOOLEAN : containerStart(ok)
    \/ \E ok \in BOOLEAN : containerLogs(ok)
    \/ \E chunk \in Chars : StreamData(chunk)
    \/ ContainerExits
    \/ StreamEnd
    \/ StreamError
    \/ TimeoutFires
    \/ \E ok \in BOOLEAN : StopReturns(ok)

SpawnSpec == Init /\ [][SpawnNext]_vars

\* the same, with what the runtime guarantees: a stop request is answered,
\* the log stream of a container that is gone ends, and a timer that stays
\* armed fires
SpawnFairSpec ==
    /\ Init
    /\ [][SpawnNext]_vars
    /\ WF_vars(\E ok \in BOOLEAN : StopReturns(ok))
    /\ WF_vars(StreamEnd)
    /\ WF_vars(TimeoutFires)

\* ------------------------------------------------------------------------
\* Claims
\* ------------------------------------------------------------------------

ClaimedIds(c) == {claimer[c].claimed[i].id : i \in 1..Len(claimer[c].claimed)}
DueIdsOf(c) == {claimer[c].due[i].id : i \in 1..Len(claimer[c].due)}

\* C1: over any interleaving of claimDueCalendarEvents calls, an event row is
\* in the claimed set of at most one call (and at most once in it), and a
\* call whose conditional update of a row reported 0 affected rows does not
\* hold that row in its claimed set.
C1_AtMostOneClaimer ==
    /\ \A c1, c2 \in Claimers : c1 # c2 => ClaimedIds(c1) \cap ClaimedIds(c2) = {}
    /\ \A c \in Claimers :
          /\ Cardinality(ClaimedIds(c)) = Len(claimer[c].claimed)
          /\ \A i \in 1..Len(claimer[c].rowsAffected) :
                claimer[c].rowsAffected[i] = 0 => claimer[c].due[i].id \notin ClaimedIds(c)

\* two calls selected the same due row, both ran their conditional update on
\* it and returned: one saw rowsAffected = 1, the other 0
C1_Witness ==
    \E c1, c2 \in Claimers : \E i \in 1..Len(claimer[c1].rowsAffected) :
        \E j \in 1..Len(claimer[c2].rowsAffected) :
            /\ c1 # c2
            /\ claimer[c1].pc = "returned" /\ claimer[c2].pc = "returned"
            /\ claimer[c1].due[i].id = claimer[c2].due[j].id
            /\ claimer[c1].rowsAffected[i] = 1
            /\ claimer[c2].rowsAffected[j] = 0

\* C2: when all concurrent claimDueCalendarEvents calls have returned, every
\* row that any of them selected as due is in the claimed set of exactly one
\* call and no such row is still `scheduled`.
C2_UnionIsAllEligible ==
    (\A c \in Claimers : claimer[c].pc = "returned") =>
        \A id \in UNION {DueIdsOf(c) : c \in Claimers} :
            /\ Cardinality({c \in Claimers : id \in ClaimedIds(c)}) = 1
            /\ calendar_events[id].status # "scheduled"

\* all calls returned, two of them had selected the same two due rows, and
\* each of them claimed one
C2_Witness ==
    /\ \A c \in Claimers : claimer[c].pc = "returned"
    /\ \E c1, c2 \in Claimers :
          /\ c1 # c2
          /\ Cardinality(DueIdsOf(c1) \cap DueIdsOf(c2)) >= 2
          /\ ClaimedIds(c1) # {} /\ ClaimedIds(c2) # {}

\* C3 (as claimed): whatever the interleaving of approve/deny callbacks that
\* carry the same delegation id, at most one sandbox run is spawned for one
\* DelegationRequest (the first resolver removes the entry before acting).
C3_OneRunPerDelegation ==
    \A e1, e2 \in containers :
        (e1.delegation # NoDelegation /\ e1.delegation = e2.delegation) => e1 = e2

\* C4 (as claimed): on both trigger paths that lead to spawnAgent, a trigger
\* goes on to its environment only at a moment where canSpend holds: a chat
\* message is accepted, and an approved delegation creates its sub-agent's
\* environment, only if current_spend < daily_limit after the lazy reset.
C4_BudgetGatesEveryTrigger ==
    [][/\ \A r \in ChatRuns :
             (run[r].pc = "new" /\ run'[r].pc = "accepted") => canSpend(budget, today).ok
       /\ \A k \in Callbacks :
             (cb[k].pc = "approved" /\ cb'[k].pc = "spawning") => canSpend(budget, today).ok
      ]_vars

\* an allow-listed sender's message r has its budget checked in this step
BudgetChecked(r) ==
    /\ run[r].pc = "new"
    /\ run'[r].pc # "new"
    /\ run'[r].reply[1] # "unauthorized"

\* the same, with the backing store answering
BudgetAnswered(r) == store = "up" /\ BudgetChecked(r)

\* C5 (as claimed): a check with last_reset_date = today and
\* current_spend >= daily_limit denies, and the first check after the day
\* changed passes for every daily_limit.
C5_DeniedAtCapAllowedAfterReset ==
    [][\A r \in ChatRuns : BudgetAnswered(r) =>
          /\ (budget.last_reset_date = today /\ budget.current_spend >= budget.daily_limit)
                => run'[r].reply = <<"budget_exceeded">>
          /\ (budget.last_reset_date # today) => run'[r].reply # <<"budget_exceeded">>
      ]_vars

\* C5 (amended): a check with last_reset_date = today and
\* current_spend >= daily_limit denies; the first check after the day changed
\* resets the spend to 0 and passes whenever daily_limit > 0 (with
\* daily_limit = 0 it denies: 0 < 0 is false).
C5_DeniedAtCapAllowedAfterResetIfLimitPositive ==
    [][\A r \in ChatRuns : BudgetAnswered(r) =>
          /\ (budget.last_reset_date = today /\ budget.current_spend >= budget.daily_limit)
                => run'[r].reply = <<"budget_exceeded">>
          /\ (budget.last_reset_date # today) =>
                /\ budget'.current_spend = 0 /\ budget'.last_reset_date = today
                /\ (budget.daily_limit > 0 <=> run'[r].reply # <<"budget_exceeded">>)
      ]_vars

\* one message was denied at the cap, midnight passed, and the next message
\* was checked on the new day and accepted
C5_Witness ==
    /\ today = 1 /\ budget.last_reset_date = 1 /\ budget.current_spend = 0
    /\ \E r1, r2 \in ChatRuns :
          run[r1].reply = <<"budget_exceeded">> /\ run[r2].pc = "accepted"

\* the scenario: daily_limit = 1.00, current_spend = 0.9999999, reset today
C6_Scenario ==
    /\ budget.daily_limit = USD(1)
    /\ budget.current_spend = 9999999
    /\ budget.last_reset_date = today

\* C6 (as claimed): in the scenario canSpend returns false: the message is
\* denied for budget (and so no sandbox is created for it).
C6_DeniedJustBelowLimit ==
    [][\A r \in ChatRuns : (C6_Scenario /\ BudgetAnswered(r)) =>
          run'[r].reply = <<"budget_exceeded">>]_vars

\* C6 (amended): in the scenario canSpend returns true (0.9999999 < 1.00):
\* the message is not denied for budget, and goes on to its sandbox run
\* unless it is a command.
C6_AllowedJustBelowLimit ==
    [][\A r \in ChatRuns : (C6_Scenario /\ BudgetAnswered(r)) =>
          /\ run'[r].reply # <<"budget_exceeded">>
          /\ run'[r].pc = "accepted" \/ run'[r].reply[1] \in Commands]_vars

\* in the scenario a message passed the check and its sandbox was created
C6_Witness ==
    /\ C6_Scenario
    /\ \E r \in ChatRuns :
          run[r].pc = "spawning" /\ [by |-> <<"chat", r>>, delegation |-> NoDelegation] \in containers

\* run r returned its output after updateSpend stored its cost
Recorded(r) == run[r].pc = "done" /\ run[r].reply = <<"output">>

\* both runs passed canSpend before either recorded its spend
Overlapped(r1, r2) == r1 \in run[r2].overlap \/ r2 \in run[r1].overlap

\* 0.00001 USD per character of output
RunCost(r) == run[r].output.len * 100

MaxOf(a, b) == IF a >= b THEN a ELSE b

\* two interleaved runs, and no other, have recorded their spend
TwoRacedRunsRecorded(r1, r2) ==
    /\ r1 # r2
    /\ Overlapped(r1, r2)
    /\ \A r \in ChatRuns : Recorded(r) <=> r \in {r1, r2}

\* C7 (as claimed): after two interleaved runs have both recorded,
\* current_spend exceeds daily_limit by at most the cost of one run.
C7_OvershootAtMostOneRun ==
    \A r1, r2 \in ChatRuns : TwoRacedRunsRecorded(r1, r2) =>
        budget.current_spend - budget.daily_limit <= MaxOf(RunCost(r1), RunCost(r2))

\* C7 (amended): after two interleaved runs have both recorded,
\* current_spend exceeds daily_limit by less than the sum of the costs of the
\* two runs.
C7_OvershootBelowBothRuns ==
    \A r1, r2 \in ChatRuns : TwoRacedRunsRecorded(r1, r2) =>
        budget.current_spend - budget.daily_limit < RunCost(r1) + RunCost(r2)

\* two interleaved runs have recorded and the overshoot is more than the cost
\* of either
C7_Witness ==
    \E r1, r2 \in ChatRuns :
        /\ TwoRacedRunsRecorded(r1, r2)
        /\ budget.current_spend - budget.daily_limit > MaxOf(RunCost(r1), RunCost(r2))

\* the 60 s timer fired while the sandbox was still running
TimedOutRunning == spawn.timeout = "stopping" /\ spawn.container = "running"

\* the timeout's container.stop() stopped the sandbox
StoppedByTimeout == spawn.stoppedAt # NULL

\* C8 (as claimed): once the timeout's handler has run, the sandbox is no
\* longer running, and a result returned after the timeout's stop holds only
\* the output captured before that stop.
C8_TimedOutRunIsStopped ==
    /\ spawn.timeout = "done" => spawn.container # "running"
    /\ (spawn.promise = "resolved" /\ StoppedByTimeout) =>
          spawn.result = ResultOutput(FilteredText(SubSeq(spawn.output, 1, spawn.stoppedAt)))

\* C9 (as claimed): once the timeout has fired on a sandbox that has not
\* completed, spawnAgent's promise does not stay pending: it eventually
\* settles (the claim has it resolve with the placeholder or the partial
\* text), also when the stop request fails.
C9_TimedOutRunSettles ==
    TimedOutRunning ~> (spawn.promise # "pending")

\* C10 (as claimed): a run stopped by the timeout never resolves with a
\* result: its captured output is discarded and it is surfaced as a failure.
C10_TimedOutOutputDiscarded ==
    StoppedByTimeout => spawn.promise # "resolved"

\* C10 (amended): when the log stream of a run stopped by the timeout ends,
\* spawnAgent resolves with the filtered text captured up to the end of the
\* stream, or with the placeholder when nothing remains of it; the partial
\* output is returned, not discarded.
C10_TimedOutOutputReturned ==
    (StoppedByTimeout /\ spawn.stream = "ended") =>
        /\ spawn.promise = "resolved"
        /\ spawn.result = IF FilteredText(spawn.output) = <<>> THEN Placeholder
                          ELSE FilteredText(spawn.output)

\* a run stopped by the timeout resolved with the text it had captured
C10_Witness ==
    /\ StoppedByTimeout
    /\ spawn.promise = "resolved"
    /\ spawn.output # <<>>
    /\ spawn.result = FilteredText(spawn.output)

\* the positions of the writes of a sentinel file into a sandbox
Writes(file, container) ==
    {i \in DOMAIN sentinels : sentinels[i].file = file /\ sentinels[i].container = container}

WritesBy(k) == {i \in DOMAIN sentinels : sentinels[i].by = k}

ApSettled == \A k \in Callbacks : ap[k].pc \in {"new", "done", "threw"}

ApprovedRequest ==
    \E k \in Callbacks : /\ ap[k].pc = "done"
                         /\ ap[k].action = "approve"
                         /\ ap[k].containerId = RequestContainer

\* C11: once the callbacks delivered for an approval request have been
\* handled and one of them approved it, the request's sandbox holds exactly
\* one write of the approve sentinel and no write of the deny sentinel.
C11_ApproveWritesExactlyOnce ==
    (ApSettled /\ ApprovedRequest)
        => /\ Cardinality(Writes("approve", RequestContainer)) = 1
           /\ Writes("deny", RequestContainer) = {}

\* C12: the audit entry is updated at most once, and only the resolution
\* that updated it writes a sentinel: a resolution of an already resolved
\* request changes neither the entry nor the sandbox.
C12_ResolvedExactlyOnce ==
    /\ audit_logs.updates <= 1
    /\ \A i \in DOMAIN sentinels : sentinels[i].by = audit_logs.resolver
    /\ Len(sentinels) <= 1

\* C13: no step of the handling of a deny callback creates an environment,
\* and all it ever writes is at most one deny sentinel into the sandbox its
\* callback_data names.
C13_DenyNeverSpawns ==
    [][\A k \in Callbacks :
          (ap'[k].action = "deny" /\ ap'[k] # ap[k])
              => /\ containers' = containers
                 /\ \/ sentinels' = sentinels
                    \/ /\ WritesBy(k) = {}
                       /\ sentinels' = Append(sentinels,
                              [container |-> ap[k].containerId, file |-> "deny", by |-> k])]_vars

C13_Witness ==
    \E k \in Callbacks :
        /\ ap[k].pc = "done"
        /\ ap[k].action = "deny"
        /\ \E i \in WritesBy(k) : sentinels[i].file = "deny"
        /\ audit_logs.status = "denied"

ContainersBy(who) == {c \in containers : c.by = who}

\* callback k, which found its pending entry, completes in this step
CbCompletes(k) ==
    /\ cb[k].pc \notin {"done", "threw"}
    /\ cb'[k].pc \in {"done", "threw"}
    /\ cb'[k].delegation # NoDelegation

\* C14: when a delegation resolution that found its entry completes, the
\* entry is no longer in pendingDelegations; a denial has created no
\* sandbox; an approval has spawned the sub-agent's run and relayed its
\* output, or reported its failure.
C14_DelegationResolved ==
    [][\A k \in Callbacks : CbCompletes(k) =>
          /\ cb'[k].delegation.id \notin DOMAIN pendingDelegations'
          /\ cb'[k].told = "denied" => ContainersBy(<<"callback", k>>) = {}
          /\ cb'[k].told # "denied" =>
                /\ cb'[k].told \in {"output", "failed"}
                /\ cb'[k].told = "output" => ContainersBy(<<"callback", k>>) # {}
      ]_vars

\* C16: whenever spawnAgent fails for a chat message, processAgentMessage
\* returns the error text and does not throw; whenever it fails for an
\* approved delegation, the handler sends `Delegation failed` and does not
\* throw.
C16_SpawnFailureIsReported ==
    [][/\ \A r \in ChatRuns :
             (/\ run[r].pc \in {"accepted", "spawning"}
              /\ run'[r].pc \notin {"accepted", "spawning", "recording", "notifying"})
                => run'[r].pc = "done" /\ run'[r].reply = <<"error">>
       /\ \A k \in Callbacks :
             (/\ cb[k].pc \in {"approved", "spawning"}
              /\ cb'[k].pc \notin {"approved", "spawning", "done", "threw"}
              /\ cb'[k].told # "output")
                => cb'[k].pc = "relaying" /\ cb'[k].told = "failed"
       /\ \A k \in Callbacks : cb[k].pc = "spawning" => cb'[k].pc # "threw"
      ]_vars

\* a chat run and an approved delegation both had spawnAgent fail, and both
\* reported it
C16_Witness ==
    /\ \E r \in ChatRuns :
          /\ run[r].pc = "done" /\ run[r].reply = <<"error">>
          /\ ContainersBy(<<"chat", r>>) # {}
    /\ \E k \in Callbacks :
          /\ cb[k].pc = "done" /\ cb[k].told = "failed"
          /\ ContainersBy(<<"callback", k>>) # {}

\* C17: the reply to a message from a sender who is not allow-listed carries
\* that sender's id; handling it leaves the budget row as it was, and no
\* sandbox is ever created for it.
C17_AllowlistBeforeBudget ==
    /\ [](\A r \in ChatRuns : run[r].reply[1] = "unauthorized" =>
             /\ run[r].pc = "replied"
             /\ run[r].reply[2] \notin Allowlist
             /\ ContainersBy(<<"chat", r>>) = {})
    /\ [][\A r \in ChatRuns :
             (run[r].pc = "new" /\ run'[r].reply[1] = "unauthorized")
                => budget' = budget /\ containers' = containers]_vars

\* a sender off the allow-list was answered with their id while the budget
\* row was still waiting for its daily reset
C17_Witness ==
    /\ budget.last_reset_date # today
    /\ \E r \in ChatRuns : run[r].reply = <<"unauthorized", "mallory">>

\* C18: when recording the spend of a run ends, successfully or not,
\* processAgentMessage returns the sandbox's output.
C18_OutputSurvivesSpendFailure ==
    [][\A r \in ChatRuns :
          (run[r].pc = "recording" /\ run'[r].pc # "recording")
             => run'[r].reply = <<"output">>]_vars

C15_OneEnvironmentCompleteResult ==
    /\ spawn.created <= 1
    /\ spawn.promise = "resolved" =>
          /\ spawn.id # "none" /\ spawn.resultId = spawn.id
          /\ spawn.result # NoResult /\ spawn.result # <<>>
    /\ spawn.promise # "resolved" =>
          spawn.resultId = "none" /\ spawn.result = NoResult

\* the run printed only lines the filter drops, and resolved with its
\* container's id and the placeholder
C15_Witness ==
    /\ spawn.promise = "resolved"
    /\ spawn.output # <<>>
    /\ spawn.result = Placeholder
    /\ spawn.resultId = RequestContainer

\* a scheduled row without end time whose start time is the current second
StartsNow(id) ==
    /\ calendar_events[id].status = "scheduled"
    /\ calendar_events[id].end_time = NULL
    /\ InstantOf(calendar_events[id].start_time) = now

\* C20: a claimDueCalendarEvents call made at an event's start time, the
\* event having no end time, selects that event; and when the call returns,
\* every event it selected is running, has its started_at set and is in the
\* returned array.
C20_CreateThenClaimAtStart ==
    /\ [][(claimer[1].pc = "idle" /\ claimer'[1].pc # "idle")
             => \A id \in DOMAIN calendar_events :
                   StartsNow(id) => \E i \in DOMAIN claimer'[1].due : claimer'[1].due[i].id = id
         ]_vars
    /\ [](claimer[1].pc = "returned" =>
             \A id \in DueIdsOf(1) :
                /\ calendar_events[id].status = "running"
                /\ calendar_events[id].started_at # NULL
                /\ id \in ClaimedIds(1))

\* the rows present before and after a step
Kept == DOMAIN calendar_events \cap DOMAIN calendar_events'

\* this step is the conditional UPDATE of a claimDueCalendarEvents call, and
\* it affected row id
ClaimedInStep(id) ==
    \E c \in Claimers :
        /\ claimer[c].pc = "loop"
        /\ claimer[c].due[Len(claimer[c].rowsAffected) + 1].id = id
        /\ claimer'[c].rowsAffected = Append(claimer[c].rowsAffected, 1)

\* this step is an operator's updateCalendarEvent or deleteCalendarEvent
OperatorStep == claimer' = claimer /\ lastInsertRowid' = lastInsertRowid

\* C21 (as claimed): a row goes from scheduled to running only in the
\* conditional update of a claim, and no calendar operation takes a running
\* row back to scheduled.
C21_RunningOnlyByClaimNeverBack ==
    [][\A id \in Kept :
          /\ (calendar_events[id].status = "scheduled"
                 /\ calendar_events'[id].status = "running") => ClaimedInStep(id)
          /\ ~(calendar_events[id].status = "running"
                 /\ calendar_events'[id].status = "scheduled")
      ]_vars

\* C21 (amended): create, delete and claim change a row's status in one way
\* only, scheduled to running in the conditional update of a claim that
\* reports the row affected; every other change of status, a running row's
\* return to scheduled included, is an updateCalendarEvent that carries a
\* status.
C21_StatusChangesByClaimOrOperator ==
    [][\A id \in Kept :
          calendar_events'[id].status # calendar_events[id].status =>
             \/ OperatorStep
             \/ /\ calendar_events[id].status = "scheduled"
                /\ calendar_events'[id].status = "running"
                /\ ClaimedInStep(id)
      ]_vars

\* a row that a claim set running is scheduled again
C21_Witness ==
    \E id \in DOMAIN calendar_events :
        /\ calendar_events[id].status = "scheduled"
        /\ calendar_events[id].started_at # NULL

\* C23: the rows a claimDueCalendarEvents call selects are scheduled, have
\* started and have not ended at the time of the call, and come in ascending
\* order of start time; the call returns only rows it selected, and its
\* updates change no other row.
C23_ClaimsOnlyDueRows ==
    /\ [][(claimer[1].pc = "idle" /\ claimer'[1].pc # "idle") =>
             LET due == claimer'[1].due
             IN /\ \A i \in DOMAIN due :
                      /\ due[i].status = "scheduled"
                      /\ InstantOf(due[i].start_time) <= now
                      /\ due[i].end_time = NULL \/ InstantOf(due[i].end_time) >= now
                /\ \A i, j \in DOMAIN due :
                      i < j => InstantOf(due[i].start_time) <= InstantOf(due[j].start_time)
         ]_vars
    /\ [](ClaimedIds(1) \subseteq DueIdsOf(1))
    /\ [][(claimer[1].pc = "loop" /\ claimer'[1] # claimer[1]) =>
             \A id \in Kept :
                id \notin DueIdsOf(1) => calendar_events'[id] = calendar_events[id]
         ]_vars

IsRunning(id) ==
    id \in DOMAIN calendar_events /\ calendar_events[id].status = "running"

IsTerminal(id) ==
    /\ id \in DOMAIN calendar_events
    /\ calendar_events[id].status \in {"completed", "failed"}
    /\ calendar_events[id].completed_at # NULL
    /\ calendar_events[id].status = "failed" => calendar_events[id].last_error # "none"

\* C22: every event that is running eventually is completed, or failed with
\* its error text, with completed_at set.
C22_ClaimedReachesTerminal ==
    \A id \in 1..MaxEvents : IsRunning(id) ~> IsTerminal(id)

\* C24: once the run that created a DelegationRequest has returned, the
\* approver has been sent the request, and the user was told so and not
\* given the raw output.
C24_DelegationIsNotified ==
    \A id \in DOMAIN pendingDelegations :
        LET r == pendingDelegations[id].src
        IN run[r].pc = "done" =>
              id \in notified /\ run[r].reply = <<"delegation_sent">>

\* the chat runs whose sandbox run succeeded and whose handler returned
\* without an error
SucceededRuns ==
    {r \in ChatRuns : /\ run[r].pc = "done"
                      /\ run[r].reply \in {<<"output">>, <<"delegation_sent">>}}

\* the delegation resolutions whose sub-agent run succeeded
SucceededDelegations == {k \in Callbacks : cb[k].pc = "done" /\ cb[k].told = "output"}

RECURSIVE SumCost(_)
SumCost(runs) ==
    IF runs = {} THEN 0
    ELSE LET r == CHOOSE x \in runs : TRUE
         IN EstimatedCost(run[r].output) + SumCost(runs \ {r})

\* C25: current_spend has grown by the estimated cost of every successful
\* chat-triggered run, and by a cost for every successful
\* delegation-triggered run (no output is empty, so no cost is below that
\* of one character).
C25_EverySuccessfulRunRecorded ==
    budget.current_spend - 9999999 >=
        SumCost(SucceededRuns) + Cardinality(SucceededDelegations) * EstimatedCost([len |-> 1])

\* C26: an environment that was started eventually is gone, having finished
\* or been stopped.
C26_StartedIsFinishedOrStopped ==
    (spawn.container = "running") ~> (spawn.container = "exited")

\* C27: an approve / deny click delivered to the webhook eventually has its
\* handler run to the end.
C27_CallbackReachesHandler ==
    \A k \in Callbacks : (ap[k].pc # "new") ~> (ap[k].pc \in {"done", "threw"})

\* C28: the audit entry is resolved only by an allow-listed sender.
C28_OnlyAllowlistedResolve ==
    audit_logs.approved_by \in Allowlist \cup {"none"}

\* C29: the step that writes the sentinel, or fails to, ends the handler
\* normally and creates no sandbox.
C29_FailedSentinelWriteAbsorbed ==
    [][\A k \in Callbacks :
          (ap[k].pc \in {"approving", "denying"} /\ ap'[k] # ap[k])
             => ap'[k].pc = "done" /\ containers' = containers]_vars

\* an approval and a denial both ended normally with nothing written
C29_Witness ==
    /\ sentinels = <<>>
    /\ \E k1, k2 \in Callbacks :
          /\ ap[k1] = [pc |-> "done", action |-> "approve", containerId |-> RequestContainer]
          /\ ap[k2] = [pc |-> "done", action |-> "deny", containerId |-> RequestContainer]

\* C30: a delegation callback that finds no entry under its id tells the
\* operator so and returns, creating no sandbox and leaving the table as it
\* was; with an empty table, as after a restart, that is every callback.
C30_UnknownDelegationIsNoOp ==
    /\ [][\A k \in Callbacks :
             (cb[k].pc = "new" /\ cb'[k].pc # "new"
                 /\ (pendingDelegations = <<>> \/ cb'[k].told = "not_found"))
                => /\ cb'[k] = [CbInit EXCEPT !.pc = "done", !.told = "not_found"]
                   /\ containers' = containers
                   /\ pendingDelegations' = pendingDelegations]_vars
    /\ [](\A k \in Callbacks :
             cb[k].told = "not_found" => ContainersBy(<<"callback", k>>) = {})

\* the request the operator was sent did not survive a restart: a click on
\* it found nothing, and no callback ever found it
C30_Witness ==
    /\ run[1].reply = <<"delegation_sent">>
    /\ pendingDelegations = <<>>
    /\ \A k \in Callbacks : cb[k].delegation = NoDelegation
    /\ \E k \in Callbacks : cb[k].pc = "done" /\ cb[k].told = "not_found"

\* a line of nothing but whitespace
IsBlank(l) == \A i \in 1..Len(l) : l[i] \in Whitespace

BeginsWithBrace(l) == l # <<>> /\ l[1] = "{"

IsRemainingLine(l) == ~IsBlank(l) /\ ~BeginsWithBrace(l)

\* the captured output without its blank lines and its lines beginning with
\* '{', the remaining lines joined in their order
RemainingJoined(out) == JoinLines(SelectSeq(SplitLines(out), IsRemainingLine))

\* text is joined without the whitespace at its two ends
IsTrimmed(text, joined) ==
    /\ text # <<>> => text[1] \notin Whitespace /\ text[Len(text)] \notin Whitespace
    /\ \E i \in 0..Len(joined) :
          /\ i + Len(text) <= Len(joined)
          /\ SubSeq(joined, i + 1, i + Len(text)) = text
          /\ \A j \in (1..i) \cup ((i + Len(text) + 1)..Len(joined)) :
                joined[j] \in Whitespace

C32_ClaimedRowsReachCaller ==
    \A id \in DOMAIN calendar_events :
        calendar_events[id].status = "running" =>
            \E c \in Claimers : claimer[c].pc \in {"loop", "returned"} /\ id \in ClaimedIds(c)

\* C33: the event a claimDueCalendarEvents call pushes on its claimed array
\* carries the prompt and start_time the row has at the moment of the
\* conditional update, and the row is due at that moment.
C33_ClaimedEventIsCurrentRow ==
    [][\A id \in Kept :
          (ClaimedInStep(id) /\ claimer'[1].claimed # claimer[1].claimed) =>
              LET event == claimer'[1].claimed[Len(claimer'[1].claimed)]
              IN /\ event.prompt = calendar_events[id].prompt
                 /\ event.start_time = calendar_events[id].start_time
                 /\ IsDue(id, toISOString(now))]_vars

\* C34: the step that creates a DelegationRequest stores it under an id no
\* pending request has: every request that was pending stays as it was.
C34_DelegationIdsDistinct ==
    [][\A r \in ChatRuns :
          (run[r].pc = "spawning" /\ run'[r].pc = "notifying") =>
              /\ DOMAIN pendingDelegations' # DOMAIN pendingDelegations
              /\ \A id \in DOMAIN pendingDelegations :
                    pendingDelegations'[id] = pendingDelegations[id]]_vars

====
